---- MODULE Spec2Model ----
(***************************************************************************)
(* Red-Black tree of src/src/main.rs: insert, fix_insert, left_rotate,     *)
(* right_rotate and inorder over Rc<RefCell<Node>> links.                  *)
(*                                                                         *)
(* A node is an identifier: 0 is the shared nil sentinel of the tree, and  *)
(* 1, 2, ... are the nodes allocated by insert, in allocation order.  A    *)
(* Link is NONE (Option::None) or a node identifier.  An unwrap() of None  *)
(* and a RefCell double borrow abort the program: pc = "panic".            *)
(***************************************************************************)
EXTENDS Integers, Sequences, FiniteSets, TLC

\* ---------------------------------------------------------------- bounds
MaxNodes == 6       \* inserts per run of Spec
MaxVal == 5         \* values inserted by Spec are 1..MaxVal
MaxIncNodes == 7    \* inserts per run of SpecInc
MaxIncVal == 8      \* values inserted by SpecInc are 1..MaxIncVal
MaxRot == 8         \* cap of the rotation counter
MainSlack == 2      \* values SpecMain may insert besides those of main

\* --------------------------------------------------------- representation
NONE == -1
NIL == 0
Red == "Red"
Black == "Black"

\* The values main inserts, in order (lines 284-291).
MainValues == <<20, 15, 25, 10, 5, 1, 30, 18>>

MaxOf(a, b) == IF a > b THEN a ELSE b
MaxIds == MaxOf(MaxOf(MaxNodes, MaxIncNodes), Len(MainValues))
Ids == 0..MaxIds
Link == Ids \cup {NONE}
Values == 1..MaxVal
IncValues == 1..MaxIncVal

VARIABLES
    data,          \* Node.data of every node
    color,         \* Node.color
    left,          \* Node.left
    right,         \* Node.right
    parent,        \* Node.parent
    root,          \* RedBlackTree.root
    n,             \* number of nodes allocated by insert (Node::new calls)
    pc,            \* "idle" | "descend" | "fix" | "line" | "panic"
    cur,           \* insert: cur of the descent loop
    node,          \* fix_insert: current_node
    parent_rc,     \* fix_insert: parent_rc of the running iteration
    gp_rc,         \* fix_insert: gp_rc of the running iteration
    is_left_child, \* fix_insert: is_left_child of the running iteration
    rotations,     \* calls of left_rotate and right_rotate in this insert
    visited        \* nodes printed by inorder() since the last insert

tree == <<data, color, left, right, parent, root>>
locals == <<cur, node, parent_rc, gp_rc, is_left_child>>
vars == <<data, color, left, right, parent, root, n, pc, cur, node,
          parent_rc, gp_rc, is_left_child, rotations, visited>>

\* RedBlackTree::new: root None, nil Black with no links.  Unallocated
\* identifiers carry the fields Node::new gives a node.
Init ==
    /\ data = [i \in Ids |-> 0]
    /\ color = [i \in Ids |-> IF i = NIL THEN Black ELSE Red]
    /\ left = [i \in Ids |-> NONE]
    /\ right = [i \in Ids |-> NONE]
    /\ parent = [i \in Ids |-> NONE]
    /\ root = NONE
    /\ n = 0
    /\ pc = "idle"
    /\ cur = NONE
    /\ node = NONE
    /\ parent_rc = NONE
    /\ gp_rc = NONE
    /\ is_left_child = FALSE
    /\ rotations = 0
    /\ visited = << >>

\* ------------------------------------------------------------- rotations
\* The links a rotation reads and writes; ok = FALSE once it has panicked.
Links == [left |-> left, right |-> right, parent |-> parent, root |-> root,
          ok |-> TRUE]

Fail(t) == [t EXCEPT !.ok = FALSE]

\* left_rotate that forgets `self.root = Some(y)` when x has no parent.
LeftRotateKeepsRoot(t, x) ==
    LET y == t.right[x] IN
    IF y = NONE \/ y = x THEN Fail(t)
    ELSE
    LET yl == t.left[y]
        t1 == [t EXCEPT !.right[x] = yl]
        t2 == IF yl # NONE THEN [t1 EXCEPT !.parent[yl] = x] ELSE t1
        xp == t2.parent[x]
        t3 == [t2 EXCEPT !.parent[y] = xp]
        t4 == IF xp = NONE THEN t3
              ELSE IF t3.left[xp] = x THEN [t3 EXCEPT !.left[xp] = y]
              ELSE [t3 EXCEPT !.right[xp] = y]
    IN [t4 EXCEPT !.left[y] = x, !.parent[x] = y]

\* left_rotate with the test of line 225 inverted: y replaces x on the
\* other side of x's parent.
LeftRotateOtherSide(t, x) ==
    LET y == t.right[x] IN
    IF y = NONE \/ y = x THEN Fail(t)
    ELSE
    LET yl == t.left[y]
        t1 == [t EXCEPT !.right[x] = yl]
        t2 == IF yl # NONE THEN [t1 EXCEPT !.parent[yl] = x] ELSE t1
        xp == t2.parent[x]
        t3 == [t2 EXCEPT !.parent[y] = xp]
        t4 == IF xp = NONE THEN [t3 EXCEPT !.root = y]
              ELSE IF t3.left[xp] = x THEN [t3 EXCEPT !.right[xp] = y]
              ELSE [t3 EXCEPT !.left[xp] = y]
    IN [t4 EXCEPT !.left[y] = x, !.parent[x] = y]

\* left_rotate without its last statement, `x.parent = Some(y)`.
LeftRotateStaleParent(t, x) ==
    LET y == t.right[x] IN
    IF y = NONE \/ y = x THEN Fail(t)
    ELSE
    LET yl == t.left[y]
        t1 == [t EXCEPT !.right[x] = yl]
        t2 == IF yl # NONE THEN [t1 EXCEPT !.parent[yl] = x] ELSE t1
        xp == t2.parent[x]
        t3 == [t2 EXCEPT !.parent[y] = xp]
        t4 == IF xp = NONE THEN [t3 EXCEPT !.root = y]
              ELSE IF t3.left[xp] = x THEN [t3 EXCEPT !.left[xp] = y]
              ELSE [t3 EXCEPT !.right[xp] = y]
    IN [t4 EXCEPT !.left[y] = x]

\* left_rotate(x), statement by statement.
LeftRotate(t, x) ==
    LET y == t.right[x] IN
    IF y = NONE \/ y = x THEN Fail(t)
    ELSE
    LET yl == t.left[y]
        t1 == [t EXCEPT !.right[x] = yl]
    IN
    IF yl = y THEN Fail(t1)
    ELSE
    LET t2 == IF yl # NONE THEN [t1 EXCEPT !.parent[yl] = x] ELSE t1
        xp == t2.parent[x]
        t3 == [t2 EXCEPT !.parent[y] = xp]
        t4 == IF xp = NONE THEN [t3 EXCEPT !.root = y]
              ELSE IF t3.left[xp] = NONE THEN Fail(t3)
              ELSE IF xp = x THEN Fail(t3)
              ELSE IF t3.left[xp] = x THEN [t3 EXCEPT !.left[xp] = y]
              ELSE [t3 EXCEPT !.right[xp] = y]
    IN
    IF ~t4.ok THEN t4
    ELSE [t4 EXCEPT !.left[y] = x, !.parent[x] = y]

\* right_rotate that hangs x under the left link of y's parent whichever
\* side y was on.
RightRotateAlwaysLeft(t, y) ==
    LET x == t.left[y] IN
    IF x = NONE \/ x = y THEN Fail(t)
    ELSE
    LET xr == t.right[x]
        t1 == [t EXCEPT !.left[y] = xr]
        t2 == IF xr # NONE THEN [t1 EXCEPT !.parent[xr] = y] ELSE t1
        yp == t2.parent[y]
        t3 == [t2 EXCEPT !.parent[x] = yp]
        t4 == IF yp = NONE THEN [t3 EXCEPT !.root = x]
              ELSE [t3 EXCEPT !.left[yp] = x]
    IN [t4 EXCEPT !.right[x] = y, !.parent[y] = x]

\* right_rotate without its last but one statement, `x.right = Some(y)`.
RightRotateDropsY(t, y) ==
    LET x == t.left[y] IN
    IF x = NONE \/ x = y THEN Fail(t)
    ELSE
    LET xr == t.right[x]
        t1 == [t EXCEPT !.left[y] = xr]
        t2 == IF xr # NONE THEN [t1 EXCEPT !.parent[xr] = y] ELSE t1
        yp == t2.parent[y]
        t3 == [t2 EXCEPT !.parent[x] = yp]
        t4 == IF yp = NONE THEN [t3 EXCEPT !.root = x]
              ELSE IF t3.right[yp] = y THEN [t3 EXCEPT !.right[yp] = x]
              ELSE [t3 EXCEPT !.left[yp] = x]
    IN [t4 EXCEPT !.parent[y] = x]

\* right_rotate(y), statement by statement.
RightRotate(t, y) ==
    LET x == t.left[y] IN
    IF x = NONE \/ x = y THEN Fail(t)
    ELSE
    LET xr == t.right[x]
        t1 == [t EXCEPT !.left[y] = xr]
    IN
    IF xr = x THEN Fail(t1)
    ELSE
    LET t2 == IF xr # NONE THEN [t1 EXCEPT !.parent[xr] = y] ELSE t1
        yp == t2.parent[y]
        t3 == [t2 EXCEPT !.parent[x] = yp]
        t4 == IF yp = NONE THEN [t3 EXCEPT !.root = x]
              ELSE IF t3.right[yp] = NONE THEN Fail(t3)
              ELSE IF yp = y THEN Fail(t3)
              ELSE IF t3.right[yp] = y THEN [t3 EXCEPT !.right[yp] = x]
              ELSE [t3 EXCEPT !.left[yp] = x]
    IN
    IF ~t4.ok THEN t4
    ELSE [t4 EXCEPT !.right[x] = y, !.parent[y] = x]

Bump(r) == IF r < MaxRot THEN r + 1 ELSE r

\* ---------------------------------------------------------------- insert
ResetLocals ==
    /\ cur' = NONE
    /\ node' = NONE
    /\ parent_rc' = NONE
    /\ gp_rc' = NONE
    /\ is_left_child' = FALSE

Panic ==
    /\ pc' = "panic"
    /\ UNCHANGED <<tree, n, locals, rotations, visited>>

\* insert on an empty tree without line 80.
InsertRootStaysRed(v) ==
    /\ pc = "idle"
    /\ root = NONE
    /\ n' = n + 1
    /\ data' = [data EXCEPT ![n + 1] = v]
    /\ left' = [left EXCEPT ![n + 1] = NIL]
    /\ right' = [right EXCEPT ![n + 1] = NIL]
    /\ root' = n + 1
    /\ rotations' = 0
    /\ visited' = << >>
    /\ UNCHANGED <<color, parent, pc, locals>>

\* insert, lines 73-82: the tree is empty.
InsertRoot(v) ==
    /\ pc = "idle"
    /\ root = NONE
    /\ n' = n + 1
    /\ data' = [data EXCEPT ![n + 1] = v]
    /\ left' = [left EXCEPT ![n + 1] = NIL]
    /\ right' = [right EXCEPT ![n + 1] = NIL]
    /\ color' = [color EXCEPT ![n + 1] = Black]
    /\ root' = n + 1
    /\ rotations' = 0
    /\ visited' = << >>
    /\ UNCHANGED <<parent, pc, locals>>

\* insert, lines 73-85: allocate the node and start the descent at the root.
InsertStart(v) ==
    /\ pc = "idle"
    /\ root # NONE
    /\ n' = n + 1
    /\ data' = [data EXCEPT ![n + 1] = v]
    /\ left' = [left EXCEPT ![n + 1] = NIL]
    /\ right' = [right EXCEPT ![n + 1] = NIL]
    /\ cur' = root
    /\ pc' = "descend"
    /\ rotations' = 0
    /\ visited' = << >>
    /\ UNCHANGED <<color, parent, root, node, parent_rc, gp_rc, is_left_child>>

\* Comparisons a slip would write at lines 89 and 104.
GoesLeftReversed(c) == data[n] > data[c]
GoesLeftOnTies(c) == data[n] <= data[c]

\* The child the descent takes at cur (lines 89, 94).
GoesLeft(c) == data[n] < data[c]

Child(c) == IF GoesLeft(c) THEN left[c] ELSE right[c]

\* insert, lines 87-100: one iteration that does not break.
DescendMove ==
    /\ pc = "descend"
    /\ Child(cur) # NIL
    /\ IF Child(cur) = NONE
       THEN Panic
       ELSE /\ cur' = Child(cur)
            /\ UNCHANGED <<tree, n, pc, node, parent_rc, gp_rc,
                           is_left_child, rotations, visited>>

\* insert, lines 87-121: the iteration that breaks, the attachment of the
\* new node under parent, and the call of fix_insert(new_node).
DescendAttach ==
    /\ pc = "descend"
    /\ Child(cur) = NIL
    /\ parent' = [parent EXCEPT ![n] = cur]
    /\ IF GoesLeft(cur)
       THEN /\ left' = [left EXCEPT ![cur] = n]
            /\ UNCHANGED right
       ELSE /\ right' = [right EXCEPT ![cur] = n]
            /\ UNCHANGED left
    /\ node' = n
    /\ cur' = NONE
    /\ pc' = "fix"
    /\ UNCHANGED <<data, color, root, n, parent_rc, gp_rc, is_left_child,
                   rotations, visited>>

\* ------------------------------------------------------------ fix_insert
\* What the iteration starting at the loop head (line 133) does with
\* current_node = c: the locals it binds and the branch it takes.
ParentOf(c) == parent[c]
GrandparentOf(c) == parent[parent[c]]
IsLeftChild(c) == parent[c] = left[GrandparentOf(c)]
UncleOf(c) == IF IsLeftChild(c) THEN right[GrandparentOf(c)]
              ELSE left[GrandparentOf(c)]
\* The test of lines 171 and 185 made against the child on the other side.
InnerOtherSide(c) == IF IsLeftChild(c) THEN left[parent[c]] ELSE right[parent[c]]

Inner(c) == IF IsLeftChild(c) THEN right[parent[c]] ELSE left[parent[c]]

FixCase(c) ==
    IF ParentOf(c) = NONE THEN "exit"
    ELSE IF color[ParentOf(c)] = Black THEN "exit"
    ELSE IF GrandparentOf(c) = NONE THEN "nogp"
    ELSE IF left[GrandparentOf(c)] = NONE THEN "panic"
    ELSE IF UncleOf(c) # NONE /\ color[UncleOf(c)] = Red THEN "recolor"
    ELSE IF Inner(c) = NONE THEN "panic"
    ELSE IF Inner(c) = c THEN "triangle"
    ELSE "line"

\* fix_insert without its last statement.
RootLeftAsIs(col, r) == col

\* Lines 200-202: the root is forced Black.
ForceRootBlack(col, r) == IF r # NONE THEN [col EXCEPT ![r] = Black] ELSE col

\* fix_insert, lines 133-139 and 200-202: the loop ends (no parent, or a
\* Black parent), the root is forced Black, and insert returns.
FixExit ==
    /\ pc = "fix"
    /\ FixCase(node) = "exit"
    /\ color' = ForceRootBlack(color, root)
    /\ pc' = "idle"
    /\ ResetLocals
    /\ UNCHANGED <<data, left, right, parent, root, n, rotations, visited>>

\* fix_insert, lines 133-146 and 197-198: the parent is Red and has no
\* parent; the body of `if let Some(gp_rc)` is skipped and the loop goes
\* round again with nothing changed.
FixNoGrandparent ==
    /\ pc = "fix"
    /\ FixCase(node) = "nogp"
    /\ UNCHANGED vars

\* fix_insert, lines 156-165: the uncle is Red.
FixRecolor ==
    /\ pc = "fix"
    /\ FixCase(node) = "recolor"
    /\ color' = [color EXCEPT ![ParentOf(node)] = Black,
                              ![UncleOf(node)] = Black,
                              ![GrandparentOf(node)] = Red]
    /\ node' = GrandparentOf(node)
    /\ UNCHANGED <<data, left, right, parent, root, n, pc, cur, parent_rc,
                   gp_rc, is_left_child, rotations, visited>>

\* fix_insert, lines 168-177 and 183-191: current_node is the inner
\* grandchild; current_node becomes parent_rc and the tree is rotated at it.
FixTriangle ==
    /\ pc = "fix"
    /\ FixCase(node) = "triangle"
    /\ LET p == ParentOf(node)
           t == IF IsLeftChild(node) THEN LeftRotate(Links, p)
                ELSE RightRotate(Links, p)
       IN IF ~t.ok
          THEN Panic
          ELSE /\ left' = t.left
               /\ right' = t.right
               /\ parent' = t.parent
               /\ root' = t.root
               /\ node' = p
               /\ parent_rc' = p
               /\ gp_rc' = GrandparentOf(node)
               /\ is_left_child' = IsLeftChild(node)
               /\ rotations' = Bump(rotations)
               /\ pc' = "line"
               /\ UNCHANGED <<data, color, n, cur, visited>>

\* The line case without `gp_rc.borrow_mut().color = Color::Red`.
LineStepGpKeepsColor(p, g, isl) ==
    LET t == IF isl THEN RightRotate(Links, g) ELSE LeftRotate(Links, g)
    IN IF ~t.ok
       THEN Panic
       ELSE /\ color' = [color EXCEPT ![p] = Black]
            /\ left' = t.left
            /\ right' = t.right
            /\ parent' = t.parent
            /\ root' = t.root
            /\ rotations' = Bump(rotations)
            /\ pc' = "fix"
            /\ parent_rc' = NONE
            /\ gp_rc' = NONE
            /\ is_left_child' = FALSE
            /\ UNCHANGED <<data, n, cur, node, visited>>

\* The line case with the two rotations exchanged: it rotates at gp_rc
\* towards the side parent_rc is on.
LineStepWrongSide(p, g, isl) ==
    LET t == IF isl THEN LeftRotate(Links, g) ELSE RightRotate(Links, g)
    IN IF ~t.ok
       THEN Panic
       ELSE /\ color' = [color EXCEPT ![p] = Black, ![g] = Red]
            /\ left' = t.left
            /\ right' = t.right
            /\ parent' = t.parent
            /\ root' = t.root
            /\ rotations' = Bump(rotations)
            /\ pc' = "fix"
            /\ parent_rc' = NONE
            /\ gp_rc' = NONE
            /\ is_left_child' = FALSE
            /\ UNCHANGED <<data, n, cur, node, visited>>

\* fix_insert, lines 178-181 and 192-195: parent_rc Black, gp_rc Red, and
\* the rotation at gp_rc; the loop then goes round again.
LineStep(p, g, isl) ==
    LET t == IF isl THEN RightRotate(Links, g) ELSE LeftRotate(Links, g)
    IN IF ~t.ok
       THEN Panic
       ELSE /\ color' = [color EXCEPT ![p] = Black, ![g] = Red]
            /\ left' = t.left
            /\ right' = t.right
            /\ parent' = t.parent
            /\ root' = t.root
            /\ rotations' = Bump(rotations)
            /\ pc' = "fix"
            /\ parent_rc' = NONE
            /\ gp_rc' = NONE
            /\ is_left_child' = FALSE
            /\ UNCHANGED <<data, n, cur, node, visited>>

\* The iteration whose current_node is the outer grandchild (or whose
\* unwrap at line 149, 171 or 185 aborts).
FixLine ==
    /\ pc = "fix"
    /\ FixCase(node) \in {"line", "panic"}
    /\ IF FixCase(node) = "panic"
       THEN Panic
       ELSE LineStep(ParentOf(node), GrandparentOf(node), IsLeftChild(node))

\* The rest of the iteration that rotated at parent_rc.
FixLineAfterTriangle ==
    /\ pc = "line"
    /\ LineStep(parent_rc, gp_rc, is_left_child)

\* --------------------------------------------------------------- inorder
\* A real node: a link that is Some and is not the nil sentinel (line 272).
Real(x) == x # NONE /\ x # NIL

RECURSIVE InorderHelper(_, _)

\* inorder_helper without the test of line 272.
InorderHelperPrintsNil(x, d) ==
    IF x = NONE \/ d = 0 THEN << >>
    ELSE InorderHelper(left[x], d - 1) \o <<x>> \o InorderHelper(right[x], d - 1)

\* inorder_helper(node): the nodes it prints, in order.  The recursion depth
\* d is bounded by the number of identifiers plus one, which no path of a
\* tree without a cycle reaches.
InorderHelper(x, d) ==
    IF ~Real(x) \/ d = 0 THEN << >>
    ELSE InorderHelper(left[x], d - 1) \o <<x>> \o InorderHelper(right[x], d - 1)

\* inorder(): the nodes visited, and the values printed.
Inorder == InorderHelper(root, MaxIds + 1)
InorderData == [i \in 1..Len(Inorder) |-> data[Inorder[i]]]

\* inorder() called between two inserts: lines 266-279 take &self and only
\* read the links; what they print is appended to the output.
InorderCall ==
    /\ pc = "idle"
    /\ visited' = Inorder
    /\ UNCHANGED <<tree, n, pc, locals, rotations>>

\* The nodes reachable from the root.
Reachable == {Inorder[i] : i \in 1..Len(Inorder)}

\* The nodes of the subtree of x.
Subtree(x) == LET s == InorderHelper(x, MaxIds + 1) IN {s[i] : i \in 1..Len(s)}

\* ---------------------------------------------------------- specification
Insert ==
    /\ n < MaxNodes
    /\ \E v \in Values : InsertRoot(v) \/ InsertStart(v)

Fix ==
    \/ FixExit
    \/ FixNoGrandparent
    \/ FixRecolor
    \/ FixTriangle
    \/ FixLine
    \/ FixLineAfterTriangle

Next ==
    \/ Insert
    \/ DescendMove
    \/ DescendAttach
    \/ Fix
    \/ InorderCall

Spec == Init /\ [][Next]_vars

\* The driver that inserts a strictly increasing sequence.  With such input
\* fix_insert takes no triangle branch (C10 checks that none is enabled).
InsertInc ==
    /\ n < MaxIncNodes
    /\ \E v \in IncValues :
        /\ n > 0 => v > data[n]
        /\ InsertRoot(v) \/ InsertStart(v)

NextInc ==
    \/ InsertInc
    \/ DescendMove
    \/ DescendAttach
    \/ FixExit
    \/ FixRecolor
    \/ FixLine

SpecInc == Init /\ [][NextInc]_vars
FairSpecInc == SpecInc /\ WF_vars(NextInc)

\* main (lines 282-295), and the drivers that insert eight values in the
\* same relative order as main does: the values of main with up to
\* MainSlack of them raised by 2 (17, 22, ... lie between main's values).
MainUniverse ==
    {MainValues[i] : i \in 1..Len(MainValues)}
        \cup {MainValues[i] + 2 : i \in 1..MainSlack}

SameOrderAsMain(v) ==
    \A i \in 1..n :
        /\ v # data[i]
        /\ (v < data[i]) = (MainValues[n + 1] < MainValues[i])

InsertMain ==
    /\ n < Len(MainValues)
    /\ \E v \in MainUniverse :
        /\ SameOrderAsMain(v)
        /\ InsertRoot(v) \/ InsertStart(v)

NextMain ==
    \/ InsertMain
    \/ DescendMove
    \/ DescendAttach
    \/ FixExit
    \/ FixRecolor
    \/ FixLine

SpecMain == Init /\ [][NextMain]_vars
FairSpecMain == SpecMain /\ WF_vars(NextMain)

\* insert runs to completion without yielding: every step of a running
\* insert is eventually taken.
FairSpec == Spec /\ WF_vars(Next)

\* ------------------------------------------------------- tree predicates
\* Number of Black nodes on every path from x down to a childless position,
\* x included; -1 when two such paths differ (or a path does not end).
RECURSIVE BlackHeight(_, _)
BlackHeight(x, d) ==
    IF ~Real(x) THEN 0
    ELSE IF d = 0 THEN -1
    ELSE LET l == BlackHeight(left[x], d - 1)
             r == BlackHeight(right[x], d - 1)
         IN IF l = -1 \/ r = -1 \/ l # r THEN -1
            ELSE l + (IF color[x] = Black THEN 1 ELSE 0)

\* Number of nodes on the longest path from x down.
RECURSIVE Height(_, _)
Height(x, d) ==
    IF ~Real(x) \/ d = 0 THEN 0
    ELSE LET l == Height(left[x], d - 1)
             r == Height(right[x], d - 1)
         IN 1 + (IF l > r THEN l ELSE r)

RECURSIVE Pow2(_)
Pow2(k) == IF k = 0 THEN 1 ELSE 2 * Pow2(k - 1)

\* Some insert has returned and none is running.
Returned == pc = "idle" /\ n > 0

NoRedRed ==
    \A x \in Reachable :
        color[x] = Red =>
            /\ (left[x] # NONE => color[left[x]] # Red)
            /\ (right[x] # NONE => color[right[x]] # Red)

BlackHeightUniform == \A x \in Reachable : BlackHeight(x, MaxIds + 1) # -1

\* ================================================================ claims

\* C1: after every insert that returns, no Red node reachable from the root
\* has a Red left or right child.
C1_NoAdjacentRed == Returned => NoRedRed

\* C2: after every insert that returns, all downward paths from any reachable
\* node to a childless position contain the same number of Black nodes.
C2_BlackHeightUniform == Returned => BlackHeightUniform

\* C3: every call of insert eventually returns.
C3_InsertReturns == (pc # "idle") ~> (pc = "idle")

\* C4: after every insert that returns, the root is a node and it is Black.
C4_RootBlack == Returned => (Real(root) /\ color[root] = Black)

\* An insert has returned whose red-uncle recolouring reached the root: no
\* rotation, and both children of the root are Black nodes with a Red child
\* below one of them.
C4_Witness ==
    /\ Returned
    /\ rotations = 0
    /\ Real(left[root]) /\ color[left[root]] = Black
    /\ Real(right[root]) /\ color[right[root]] = Black
    /\ color[n] = Red
    /\ color[root] = Black

\* C5: the values inorder() visits after the inserts have returned are
\* non-decreasing, duplicates included.
C5_InorderSorted ==
    Returned =>
        \A i \in 1..(Len(InorderData) - 1) : InorderData[i] <= InorderData[i + 1]

\* Duplicates and distinct values have been inserted and the last insert
\* rotated.
C5_Witness ==
    /\ Returned
    /\ n >= 4
    /\ rotations > 0
    /\ \E i, j \in 1..n : i # j /\ data[i] = data[j]
    /\ \E i, j \in 1..n : data[i] < data[j]
    /\ Len(Inorder) = n

\* C6: after n inserts have returned, inorder() visits exactly n nodes: every
\* node insert allocated, each once (so the values visited are the values
\* inserted, with their multiplicities).
C6_SizePreserved ==
    Returned => (Len(Inorder) = n /\ Reachable = 1..n)

\* An insert that rotated at the root has returned.
C6_Witness ==
    /\ Returned
    /\ n >= 3
    /\ rotations > 0
    /\ root # 1
    /\ Reachable = 1..n

\* C7: a single call of insert performs at most 2 rotations.
C7_AtMostTwoRotations == rotations <= 2

\* Every value of the left subtree of x is below data[x] by the order lt,
\* and no value of its right subtree is below data[x].
LeftBelow(x, strict) ==
    \A y \in Subtree(left[x]) :
        IF strict THEN data[y] < data[x] ELSE data[y] <= data[x]
RightNotBelow(x) == \A y \in Subtree(right[x]) : data[y] >= data[x]

\* C8 as claimed: after every insert that returns, the left subtree of every
\* node holds only strictly smaller values and the right subtree only values
\* greater than or equal.
C8_StrictLeft ==
    Returned => \A x \in Reachable : LeftBelow(x, TRUE) /\ RightNotBelow(x)

\* C8 as amended: after every insert that returns, the left subtree of every
\* node holds only values less than or equal to the node's value and the
\* right subtree only values greater than or equal to it.
C8_WeakOrder ==
    Returned => \A x \in Reachable : LeftBelow(x, FALSE) /\ RightNotBelow(x)

\* An insert has returned after which a rotation has left an equal value in
\* the left subtree of a node.
C8_Witness ==
    /\ Returned
    /\ \E x \in Reachable : \E y \in Subtree(left[x]) : data[y] = data[x]

\* The visit order is sorted by value and, among equal values, by allocation
\* (node identifiers are allocated in insertion order).
InsertionOrdered ==
    \A i, j \in 1..Len(Inorder) :
        i < j =>
            \/ data[Inorder[i]] < data[Inorder[j]]
            \/ data[Inorder[i]] = data[Inorder[j]] /\ Inorder[i] < Inorder[j]

\* A step of fix_insert leaves the visit order as it was.
FixKeepsOrder == pc \in {"fix", "line"} => Inorder' = Inorder

\* C9: among equal values inorder() visits the nodes in insertion order: a
\* new node lands after every node whose value is less than or equal to its
\* own, and no step of fix_insert changes the visit order.
C9_StableOrder ==
    /\ [](pc # "panic" => InsertionOrdered)
    /\ [][FixKeepsOrder]_vars

\* Three equal values are in the tree, the last insert rotated, and some
\* equal value sits in a left subtree.
C9_Witness ==
    /\ Returned
    /\ rotations > 0
    /\ \E i, j, k \in 1..n :
        i < j /\ j < k /\ data[i] = data[j] /\ data[j] = data[k]
    /\ \E x \in Reachable : \E y \in Subtree(left[x]) : data[y] = data[x]
    /\ Len(Inorder) = n

\* What holds of the tree after an insert of an increasing sequence.
IncreasingOk ==
    /\ pc \notin {"panic", "line"}
    /\ pc = "fix" => FixCase(node) \in {"exit", "recolor", "line"}
    /\ Returned =>
        /\ Real(root) /\ color[root] = Black
        /\ NoRedRed
        /\ BlackHeightUniform
        /\ Reachable = 1..n
        /\ Pow2(Height(root, MaxIds + 1)) <= (n + 1) * (n + 1)

\* C10: with strictly increasing input every insert returns, and the tree
\* then has a Black root, no Red node with a Red child and a uniform
\* black-height, so its height h satisfies 2^h <= (n+1)^2.
C10_Increasing ==
    /\ []IncreasingOk
    /\ (pc # "idle") ~> (pc = "idle")

\* Seven increasing values have been inserted and the last insert returned.
C10_Witness ==
    /\ Returned
    /\ n = 7
    /\ \A i \in 1..6 : data[i] < data[i + 1]
    /\ Len(Inorder) = 7

\* The recursion of inorder_helper ends: no path from the root is longer
\* than the number of nodes allocated.
InorderTerminates == Height(root, MaxIds + 1) <= n

\* What a call of inorder() leaves behind.
InorderReadOnly ==
    InorderCall =>
        /\ tree' = tree
        /\ \A i \in 1..Len(visited') : visited'[i] \in 1..n
        /\ root = NONE => visited' = << >>

\* C11: inorder() changes neither the root reference nor any field of any
\* node, visits only nodes created by insert (never the sentinel, nothing on
\* an empty tree), and terminates on every tree the inserts reach.
C11_InorderReadOnly ==
    /\ [][InorderReadOnly]_vars
    /\ [](pc = "idle" => InorderTerminates)

\* inorder() has printed all nodes of a tree whose last insert rotated.
C11_Witness ==
    /\ Returned
    /\ n >= 4
    /\ rotations > 0
    /\ Len(visited) = n
    /\ visited = Inorder

\* C12: in every reachable state the nil sentinel is Black, has neither a
\* left nor a right child, and is not the root.
C12_SentinelFixed ==
    /\ color[NIL] = Black
    /\ left[NIL] = NONE
    /\ right[NIL] = NONE
    /\ root # NIL

\* An insert has returned that recoloured (a node other than the root and
\* the new one is Black) and rotated with the sentinel as the moved subtree
\* (line 218 or 248 has set the sentinel's parent).
C12_Witness ==
    /\ Returned
    /\ parent[NIL] # NONE
    /\ \E x \in 1..n : x # root /\ color[x] = Black
    /\ rotations > 0

\* C13: after the insert into the empty tree there is exactly one node; it
\* is the root, Black, without a parent, with the sentinel as both children,
\* and neither fix_insert nor a rotation has run.
C13_FirstInsert ==
    n = 1 =>
        /\ pc = "idle"
        /\ root = 1
        /\ color[1] = Black
        /\ parent[1] = NONE
        /\ left[1] = NIL
        /\ right[1] = NIL
        /\ rotations = 0
        /\ Inorder = <<1>>

\* The first insert has returned.
C13_Witness == Returned /\ n = 1 /\ root = 1 /\ data[1] \in Values

\* The eight inserts of a driver have returned.
MainDone == Returned /\ n = Len(MainValues)

\* The driver inserted exactly the values of main.
IsMain == \A i \in 1..Len(MainValues) : data[i] = MainValues[i]

\* No insert of the driver aborts or takes the triangle branch, and after
\* the eighth the tree is as C14 says (node 1 holds main's 20, node 2 its 15).
MainOk ==
    /\ pc \notin {"panic", "line"}
    /\ pc = "fix" => FixCase(node) \in {"exit", "recolor", "line"}
    /\ MainDone =>
        /\ root \in {1, 2}
        /\ color[root] = Black
        /\ NoRedRed
        /\ Len(Inorder) = Len(MainValues)
        /\ \A i \in 1..(Len(InorderData) - 1) :
               InorderData[i] < InorderData[i + 1]
        /\ IsMain =>
            /\ InorderData = <<1, 5, 10, 15, 18, 20, 25, 30>>
            /\ data[root] \in {20, 15}

\* C14: the inserts of 20,15,25,10,5,1,30,18 all return; inorder() then
\* visits 1,5,10,15,18,20,25,30, the root holds 20 or 15 and is Black, and no
\* Red node has a Red child.
C14_Main ==
    /\ []MainOk
    /\ (pc # "idle") ~> (pc = "idle")

\* main's own eight inserts have returned.
C14_Witness == MainDone /\ IsMain /\ Len(Inorder) = 8

\* The step is the rotation at the grandparent G (lines 181, 195) with its
\* two recolourings, and it has not aborted.
RotatesAtG ==
    /\ \/ pc = "fix" /\ FixCase(node) = "line"
       \/ pc = "line"
    /\ pc' = "fix"

PivotG == IF pc = "line" THEN gp_rc ELSE GrandparentOf(node)

\* After the rotation at g the node top, now in g's former position, is
\* Black with g as a Red child that has no Red child, and the black-height
\* of the subtree is what it was.
RepairedAt(g, top) ==
    /\ Real(top)
    /\ left'[top] = g \/ right'[top] = g
    /\ color'[top] = Black
    /\ color'[g] = Red
    /\ color'[left'[g]] # Red
    /\ color'[right'[g]] # Red
    /\ BlackHeight(g, MaxIds + 1) # -1
    /\ (BlackHeight(top, MaxIds + 1))' = BlackHeight(g, MaxIds + 1)

RotationRepairs ==
    RotatesAtG =>
        \E g \in Ids : \E top \in Ids :
            g = PivotG /\ top = parent'[g] /\ RepairedAt(g, top)

\* C15: when the parent is Red and the uncle Black or the sentinel, line and
\* triangle shape alike, after the rotation at G the node in G's former
\* position is Black with G as a Red child, without a Red-Red pair and with
\* the black-height the subtree had.
C15_RotationRepairs == [][RotationRepairs]_vars

\* C16: at the start of every iteration of the loop of fix_insert the
\* current node is Red, black-height is uniform, and a Red node has a Red
\* child only if that child is the current node.
C16_LoopInvariant ==
    pc = "fix" =>
        /\ color[node] = Red
        /\ BlackHeightUniform
        /\ \A x \in Reachable :
               color[x] = Red =>
                   /\ (Real(left[x]) /\ color[left[x]] = Red => left[x] = node)
                   /\ (Real(right[x]) /\ color[right[x]] = Red => right[x] = node)

\* The step is the rotation at the parent of the triangle case (lines 175,
\* 189), and it has not aborted.
RotatesAtParent == pc = "fix" /\ FixCase(node) = "triangle" /\ pc' = "line"

\* The rotation a step calls: its pivot, whether it is left_rotate, the
\* child it promotes, and the colours its caller writes before the call.
Pivot == IF RotatesAtParent THEN ParentOf(node) ELSE PivotG
CallsLeftRotate ==
    IF RotatesAtParent THEN IsLeftChild(node)
    ELSE IF pc = "line" THEN ~is_left_child
    ELSE ~IsLeftChild(node)
Promoted == IF CallsLeftRotate THEN right[Pivot] ELSE left[Pivot]
ColorsOfCaller ==
    IF RotatesAtParent THEN color
    ELSE [color EXCEPT ![IF pc = "line" THEN parent_rc ELSE ParentOf(node)] = Black,
                       ![PivotG] = Red]

\* y has taken the place of x: under the root reference, or on x's side of
\* x's old parent, whose other link is as it was.
Replaces(x, y) ==
    /\ parent'[y] = parent[x]
    /\ parent'[x] = y
    /\ IF parent[x] = NONE
       THEN root' = y
       ELSE /\ root' = root
            /\ IF left[parent[x]] = x
               THEN /\ left'[parent[x]] = y
                    /\ right'[parent[x]] = right[parent[x]]
               ELSE /\ right'[parent[x]] = y
                    /\ left'[parent[x]] = left[parent[x]]

RotationFrame ==
    RotatesAtParent \/ RotatesAtG =>
        /\ Inorder' = Inorder
        /\ color' = ColorsOfCaller
        /\ Real(Promoted)
        /\ \E x \in Ids : \E y \in Ids : x = Pivot /\ y = Promoted /\ Replaces(x, y)

\* C17: every left_rotate and right_rotate of an insert keeps the order in
\* which inorder visits the nodes and changes no colour; the promoted child
\* becomes the root when the pivot had no parent and otherwise replaces the
\* pivot on the same side of the pivot's old parent.
C17_RotationFrame == [][RotationFrame]_vars

\* The loop head after a rotation whose pivot had a parent: the current
\* node's Black parent was promoted under a node.
C17_Witness ==
    /\ pc = "fix"
    /\ rotations > 0
    /\ Real(parent[node])
    /\ color[parent[node]] = Black
    /\ Real(parent[parent[node]])

\* The child the rotation about to be called unwraps and promotes.
NeededAtParent ==
    IF IsLeftChild(node) THEN right[ParentOf(node)] ELSE left[ParentOf(node)]
NeededAtG(g, isl) == IF isl THEN left[g] ELSE right[g]

\* C18: whenever fix_insert calls left_rotate(x) the right child of x is a
\* real node, whenever it calls right_rotate(y) the left child of y is one,
\* and no insert aborts.
C18_RotationPrecondition ==
    /\ pc # "panic"
    /\ pc = "fix" /\ FixCase(node) = "triangle" => Real(NeededAtParent)
    /\ pc = "fix" /\ FixCase(node) = "line" =>
           Real(NeededAtG(GrandparentOf(node), IsLeftChild(node)))
    /\ pc = "line" => Real(NeededAtG(gp_rc, is_left_child))

\* Between the two rotations of a triangle case on a tree of five or more
\* nodes: the second rotation is about to be called on a real child.
C18_Witness ==
    /\ pc = "line"
    /\ n >= 5
    /\ rotations = 1
    /\ Real(NeededAtG(gp_rc, is_left_child))
    /\ Real(parent[gp_rc])

\* C19: after every insert that returns the root has no parent, every real
\* child of a reachable node has that node as its parent, and every node
\* insert created is reached from the root on exactly one path.
C19_LinksConsistent ==
    Returned =>
        /\ parent[root] = NONE
        /\ \A x \in Reachable :
               /\ Real(left[x]) => parent[left[x]] = x
               /\ Real(right[x]) => parent[right[x]] = x
        /\ Len(Inorder) = n
        /\ Reachable = 1..n

\* An insert that rotated has returned, the first node is no longer the
\* root, and the tree has five or more nodes.
C19_Witness ==
    /\ Returned
    /\ n >= 5
    /\ rotations > 0
    /\ root # 1
    /\ parent[1] # NONE
    /\ parent[root] = NONE

====
